---- MODULE Spec2Model ----
(***************************************************************************)
(* Model of the scenario runner (src/run_scenarios.py): SimulationRunner   *)
(* and main().  One batch (or one --scenario call) is one behaviour.  The  *)
(* file system is modelled by the directories the code names through       *)
(* relative paths, resolved against the current working directory.        *)
(***************************************************************************)
EXTENDS Integers, Sequences, FiniteSets, TLC

\* ------------------------------------------------------------------ bounds
MaxScenarios == 2

NamePool == <<"scenario_a", "scenario_b", "scenario_c", "scenario_d">>

\* section names of the configuration that start with scenario_
ScenarioNames == {NamePool[k] : k \in 1..MaxScenarios}

\* a --scenario argument that names no section of the configuration
UnknownScenario == "scenario_missing"

\* args.scenario is None
NoScenarioArg == "-"

\* ------------------------------------------------------------- constants
\* subprocess.run(..., timeout=300)
timeout == 300

\* wall-clock durations of a simulator run that ends before the timeout
Durations == {1, 299}

anim_xml == "footballer-network-anim.xml"

flowmon_xml == "flowmon-results.xml"

files_to_move == <<anim_xml, flowmon_xml>>

Artifacts == {anim_xml, flowmon_xml}

\* content of a file that does not exist
NoFile == "none"

\* content of a file that was there before this program started
OldFile == "old"

\* ------------------------------------------------------------ directories
\* "proj": the directory the program is started in; "root": its parent (the
\* NS-3 root the code changes to); "up": the parent of that one.
Bases == {"proj", "root", "up"}

\* os.chdir("..") from directory d
Parent(d) == IF d = "proj" THEN "root" ELSE "up"

\* os.path.join(self.results_dir, scenario_name) is a relative path: the
\* directory it names depends on the working directory at the time of use
ScenarioDir(wdir, scenario_name) == <<wdir, scenario_name>>

NoLog == [present |-> FALSE, scenario |-> "", returncode |-> 0, execution_time |-> 0]

EmptyDir == [f \in Artifacts |-> NoFile]

OldDir == [f \in Artifacts |-> OldFile]

VARIABLES
    sections,             \* self.get_scenarios(): scenario sections, in order
    argScenario,          \* args.scenario
    posix,                \* os.rename replaces an existing file (POSIX) or raises (Windows)
    cwd,                  \* the process working directory
    dirs,                 \* existing scenario directories, as ScenarioDir values
    sfiles,               \* artifacts inside each scenario directory
    outputLog,            \* simulation_output.txt of each scenario directory
    errorLog,             \* error_output.txt of each scenario directory
    reports,              \* scenario directories holding the analysis reports
    wd,                   \* artifacts lying directly in each base directory
    pc,                   \* position of main / run_all_scenarios
    idx,                  \* loop index of run_all_scenarios (1-based)
    cur,                  \* scenario_name of the call in progress
    original_dir,         \* run_scenario's local original_dir
    proc,                 \* the simulator child process
    returncode,           \* result.returncode
    elapsed,              \* wall-clock time since start_time
    retval,               \* value returned by run_scenario
    successful_scenarios, \* run_all_scenarios' list
    failed_scenarios,     \* run_all_scenarios' list
    results,              \* run_all_scenarios' dict, in insertion order
    comparison,           \* scenario_comparison.txt
    exitCode,             \* value returned by main
    \* history variables (observations, not program state)
    launched,             \* scenarios for which the try block was entered, in order
    outcome,              \* branch by which run_scenario returned, per scenario
    callCwd,              \* working directory when run_scenario was called
    relocated,            \* <<scenario, artifact, content>> moved by run_scenario
    replaced,             \* <<scenario, artifact>> whose earlier file a move replaced
    analysed              \* scenarios handed to analyze_scenario_results, in order

vars == <<sections, argScenario, posix, cwd, dirs, sfiles, outputLog, errorLog,
          reports, wd, pc, idx, cur, original_dir, proc, returncode, elapsed,
          retval, successful_scenarios, failed_scenarios, results, comparison,
          exitCode, launched, outcome, callCwd, relocated, replaced, analysed>>

\* ---- the analysis script (src/analyze_results.py), one call of its main()
VARIABLES
    flowmon,      \* the file args.flowmon names: exists, well-formed, its Flow entries
    scenario_config, \* the scenario's section: simulation_time, image_size, packet_size
    no_plots,     \* args.no_plots
    flows,        \* analyzer.flows: a dict, kept in insertion order
    apc,          \* position of the analysis main
    report_file,  \* performance_report.txt
    csv_file,     \* simulation_results.csv
    aexit,        \* value returned by the analysis main
    fault         \* an exception left main unhandled

avars == <<flowmon, scenario_config, no_plots, flows, apc, report_file, csv_file, aexit, fault>>

\* ---- a second run of the analysis on the same artifact and parameters
VARIABLES
    rerun,        \* "first", or how the second run began: "fresh" or "same"
    first_report, \* performance_report.txt as the first run wrote it
    first_csv     \* simulation_results.csv as the first run wrote it

rvars == <<rerun, first_report, first_csv>>

\* no second run has begun
FirstRun ==
    /\ rerun = "first"
    /\ first_report = [written |-> FALSE]
    /\ first_csv = [written |-> FALSE]

Range(s) == {s[k] : k \in 1..Len(s)}

\* the configurations: the first n scenario sections, n = 0..MaxScenarios.
\* The code never compares or sorts section names, so one order per length
\* stands for all
SectionLists == {[k \in 1..n |-> NamePool[k]] : n \in 0..MaxScenarios}

AllDirs == Bases \X ScenarioNames

\* the analysis script is not started
AnalyzerIdle ==
    /\ flowmon = [exists |-> FALSE, wellformed |-> FALSE, entries |-> <<>>]
    /\ scenario_config = [simulation_time |-> 10, image_size |-> 50000,
                          packet_size |-> [present |-> FALSE, v |-> 0]]
    /\ no_plots = TRUE
    /\ flows = <<>>
    /\ apc = "idle"
    /\ report_file = [written |-> FALSE]
    /\ csv_file = [written |-> FALSE]
    /\ aexit = -1
    /\ fault = FALSE
    /\ FirstRun

Init ==
    /\ sections \in SectionLists
    /\ argScenario \in {NoScenarioArg, UnknownScenario} \cup ScenarioNames
    /\ posix \in BOOLEAN
    /\ cwd = "proj"
    \* what earlier runs or the user left behind: under the NS-3 root a scenario
    \* directory may exist, empty or with old artifacts; under the project
    \* directory the scenario directories may exist with an old flow-statistics
    \* file each
    /\ \E rootEmpty, rootOld \in SUBSET Range(sections),
          projOld \in {{}, Range(sections)} :
          /\ rootEmpty \cap rootOld = {}
          /\ dirs = ({"root"} \X (rootEmpty \cup rootOld)) \cup ({"proj"} \X projOld)
          /\ sfiles = [d \in AllDirs |->
                         IF d[1] = "root" /\ d[2] \in rootOld THEN OldDir
                         ELSE IF d[1] = "proj" /\ d[2] \in projOld
                              THEN [EmptyDir EXCEPT ![flowmon_xml] = OldFile]
                         ELSE EmptyDir]
    /\ outputLog = [d \in AllDirs |-> NoLog]
    /\ errorLog = [d \in AllDirs |-> NoLog]
    /\ reports = {}
    /\ wd = [b \in Bases |-> EmptyDir]
    /\ pc = "main"
    /\ idx = 0
    /\ cur = ""
    /\ original_dir = "proj"
    /\ proc = "none"
    /\ returncode = 0
    /\ elapsed = 0
    /\ retval = FALSE
    /\ successful_scenarios = <<>>
    /\ failed_scenarios = <<>>
    /\ results = <<>>
    /\ comparison = [written |-> FALSE, entries |-> <<>>]
    /\ exitCode = -1
    /\ launched = <<>>
    /\ outcome = [n \in ScenarioNames \cup {UnknownScenario} |-> "pending"]
    /\ callCwd = "proj"
    /\ relocated = {}
    /\ replaced = {}
    /\ analysed = <<>>
    /\ AnalyzerIdle

\* ---------------------------------------------------------------- main
InSections(name) == name \in Range(sections)

\* main, lines 316-317: --scenario given, run that scenario only
MainSingle ==
    /\ UNCHANGED <<avars, rvars>>
    /\ pc = "main"
    /\ argScenario # NoScenarioArg
    /\ cur' = argScenario
    /\ pc' = "call"
    /\ UNCHANGED <<sections, argScenario, posix, cwd, dirs, sfiles, outputLog,
                   errorLog, reports, wd, idx, original_dir, proc, returncode,
                   elapsed, retval, successful_scenarios, failed_scenarios,
                   results, comparison, exitCode, launched, outcome, callCwd,
                   relocated, replaced, analysed>>

\* main, line 324, and run_all_scenarios up to its loop: no scenario, return
\* the empty dict; otherwise create the results directory and start the loop
RunAllScenariosStart ==
    /\ UNCHANGED <<avars, rvars>>
    /\ pc = "main"
    /\ argScenario = NoScenarioArg
    /\ IF sections = <<>>
          THEN pc' = "finish" /\ idx' = idx
          ELSE pc' = "loop" /\ idx' = 1
    /\ UNCHANGED <<sections, argScenario, posix, cwd, dirs, sfiles, outputLog,
                   errorLog, reports, wd, cur, original_dir, proc, returncode,
                   elapsed, retval, successful_scenarios, failed_scenarios,
                   results, comparison, exitCode, launched, outcome, callCwd,
                   relocated, replaced, analysed>>

\* for i, scenario in enumerate(scenarios, 1): the next call of run_scenario,
\* or the end of the loop (the summary is printed and results returned)
LoopNext ==
    /\ UNCHANGED <<avars, rvars>>
    /\ pc = "loop"
    /\ IF idx <= Len(sections)
          THEN cur' = sections[idx] /\ pc' = "call"
          ELSE cur' = cur /\ pc' = "finish"
    /\ UNCHANGED <<sections, argScenario, posix, cwd, dirs, sfiles, outputLog,
                   errorLog, reports, wd, idx, original_dir, proc, returncode,
                   elapsed, retval, successful_scenarios, failed_scenarios,
                   results, comparison, exitCode, launched, outcome, callCwd,
                   relocated, replaced, analysed>>

\* a finally block that leaves the directory as it is
FinallyChdir_NoRestore(orig, now) == now

\* -------------------------------------------------------- run_scenario
\* finally: os.chdir(original_dir)
FinallyChdir(orig, now) == orig

\* a timeout handler that reports success
TimeoutExpiredReturn_True == TRUE

\* except subprocess.TimeoutExpired: ... return False
TimeoutExpiredReturn == FALSE

\* except Exception as e: ... return False
ExceptionReturn == FALSE

\* the branch result.returncode == 0 returns True
SuccessReturn == TRUE

\* the else branch (nonzero return code) returns False
FailureReturn == FALSE

\* run_scenario returns `value` by branch `how`, through the finally block;
\* its locals result and execution_time are gone
Returns(value, how, dirAtReturn) ==
    /\ retval' = value
    /\ outcome' = [outcome EXCEPT ![cur] = how]
    /\ cwd' = FinallyChdir(original_dir', dirAtReturn)
    /\ returncode' = 0
    /\ elapsed' = 0
    /\ pc' = "returned"

\* lines 38-40: the scenario is no section of the configuration
RunScenarioNotFound ==
    /\ UNCHANGED <<avars, rvars>>
    /\ pc = "call"
    /\ ~InSections(cur)
    /\ callCwd' = cwd
    /\ retval' = FALSE
    /\ outcome' = [outcome EXCEPT ![cur] = "notfound"]
    /\ pc' = "returned"
    /\ UNCHANGED <<sections, argScenario, posix, cwd, dirs, sfiles, outputLog,
                   errorLog, reports, wd, idx, cur, original_dir, proc,
                   returncode, elapsed, successful_scenarios, failed_scenarios,
                   results, comparison, exitCode, launched, relocated, replaced,
                   analysed>>

\* lines 66-94: create the scenario directory (relative to the current
\* directory), remember the directory, change to the parent, start the clock
\* and spawn the simulator, which now runs
RunScenarioLaunch ==
    /\ UNCHANGED <<avars, rvars>>
    /\ pc = "call"
    /\ InSections(cur)
    /\ callCwd' = cwd
    /\ dirs' = dirs \cup {ScenarioDir(cwd, cur)}
    /\ original_dir' = cwd
    /\ cwd' = Parent(cwd)
    /\ launched' = Append(launched, cur)
    /\ elapsed' = 0
    /\ proc' = "running"
    /\ pc' = "waiting"
    /\ UNCHANGED <<sections, argScenario, posix, sfiles, outputLog, errorLog,
                   reports, wd, idx, cur, returncode, retval,
                   successful_scenarios, failed_scenarios, results, comparison,
                   exitCode, outcome, relocated, replaced, analysed>>

\* lines 66-94 and 146-150: as above, but subprocess.run cannot start the
\* executable (../ns3 missing): the exception is caught, False is returned
RunScenarioLaunchError ==
    /\ UNCHANGED <<avars, rvars>>
    /\ pc = "call"
    /\ InSections(cur)
    /\ callCwd' = cwd
    /\ dirs' = dirs \cup {ScenarioDir(cwd, cur)}
    /\ original_dir' = cwd
    /\ launched' = Append(launched, cur)
    /\ Returns(ExceptionReturn, "exception", Parent(cwd))
    /\ UNCHANGED <<sections, argScenario, posix, sfiles, outputLog, errorLog,
                   reports, wd, idx, cur, proc,
                   successful_scenarios, failed_scenarios, results, comparison,
                   exitCode, relocated, replaced, analysed>>

\* the simulator (an external process) writes an output artifact into its
\* working directory while it runs
SimulatorWrites(f) ==
    /\ UNCHANGED <<avars, rvars>>
    /\ pc = "waiting"
    /\ proc = "running"
    /\ wd[cwd][f] # cur
    /\ wd' = [wd EXCEPT ![cwd][f] = cur]
    /\ UNCHANGED <<sections, argScenario, posix, cwd, dirs, sfiles, outputLog,
                   errorLog, reports, pc, idx, cur, original_dir, proc,
                   returncode, elapsed, retval, successful_scenarios,
                   failed_scenarios, results, comparison, exitCode, launched,
                   outcome, callCwd, relocated, replaced, analysed>>

\* the simulator exits with code rc after d seconds, before the timeout
SimulatorExits(rc, d) ==
    /\ UNCHANGED <<avars, rvars>>
    /\ pc = "waiting"
    /\ proc = "running"
    /\ proc' = "exited"
    /\ returncode' = rc
    /\ elapsed' = d
    /\ UNCHANGED <<sections, argScenario, posix, cwd, dirs, sfiles, outputLog,
                   errorLog, reports, wd, pc, idx, cur, original_dir, retval,
                   successful_scenarios, failed_scenarios, results, comparison,
                   exitCode, launched, outcome, callCwd, relocated, replaced,
                   analysed>>

\* what subprocess.run does to a child still running at the timeout: it kills
\* the child and waits for it before raising TimeoutExpired
KillOnTimeout(p) == "killed"

\* lines 94 and 143-150: the child is still running after `timeout` seconds;
\* end_time and execution_time are never computed on this path
RunScenarioTimeout ==
    /\ UNCHANGED <<avars, rvars>>
    /\ pc = "waiting"
    /\ proc = "running"
    /\ proc' = KillOnTimeout(proc)
    /\ original_dir' = original_dir
    /\ Returns(TimeoutExpiredReturn, "timeout", cwd)
    /\ UNCHANGED <<sections, argScenario, posix, dirs, sfiles, outputLog,
                   errorLog, reports, wd, idx, cur,
                   successful_scenarios, failed_scenarios, results, comparison,
                   exitCode, launched, callCwd, relocated, replaced, analysed>>

\* os.rename(src, dst) with dst an existing file: replaced silently on POSIX,
\* FileExistsError on Windows
RenameReplaces(isPosix) == isPosix

\* lines 120-122: for filename in files_to_move: if it exists in the working
\* directory, rename it into the scenario directory.  st.w is the working
\* directory, st.d the scenario directory, st.ok is FALSE once a rename raised
RECURSIVE MoveFiles(_, _, _, _)
MoveFiles(k, st, name, isPosix) ==
    IF k > Len(files_to_move) \/ ~st.ok THEN st
    ELSE LET f == files_to_move[k] IN
         IF st.w[f] = NoFile THEN MoveFiles(k + 1, st, name, isPosix)
         ELSE IF st.d[f] # NoFile /\ ~RenameReplaces(isPosix)
              THEN [st EXCEPT !.ok = FALSE]
         ELSE MoveFiles(k + 1,
                  [w |-> [st.w EXCEPT ![f] = NoFile],
                   d |-> [st.d EXCEPT ![f] = st.w[f]],
                   ok |-> TRUE,
                   moved |-> st.moved \cup {<<name, f, st.w[f]>>},
                   repl |-> st.repl \cup
                            (IF st.d[f] # NoFile THEN {<<name, f>>} ELSE {})],
                  name, isPosix)

\* what the log files record: scenario, return code, execution time
LogEntry(name, rc, execution_time) ==
    [present |-> TRUE, scenario |-> name, returncode |-> rc,
     execution_time |-> execution_time]

\* open(os.path.join(scenario_dir, ...), 'w') succeeds only if the directory
\* the relative path names now (after the chdir) exists
CanOpenIn(d) == d \in dirs

\* lines 95-124 and 146-150: the child exited with code 0.  Write
\* simulation_output.txt, move the artifacts, return True; an exception
\* raised on the way (open or rename) is caught and False is returned
RunScenarioExitZero ==
    /\ UNCHANGED <<avars, rvars>>
    /\ pc = "waiting"
    /\ proc = "exited"
    /\ returncode = 0
    /\ original_dir' = original_dir
    /\ LET sd == ScenarioDir(cwd, cur)
           st == MoveFiles(1, [w |-> wd[cwd], d |-> sfiles[sd], ok |-> TRUE,
                               moved |-> {}, repl |-> {}], cur, posix)
       IN IF ~CanOpenIn(sd)
          THEN /\ Returns(ExceptionReturn, "exception", cwd)
               /\ UNCHANGED <<outputLog, wd, sfiles, relocated, replaced>>
          ELSE /\ outputLog' = [outputLog EXCEPT ![sd] = LogEntry(cur, returncode, elapsed)]
               /\ wd' = [wd EXCEPT ![cwd] = st.w]
               /\ sfiles' = [sfiles EXCEPT ![sd] = st.d]
               /\ relocated' = relocated \cup st.moved
               /\ replaced' = replaced \cup st.repl
               /\ IF st.ok
                     THEN Returns(SuccessReturn, "success", cwd)
                     ELSE Returns(ExceptionReturn, "exception", cwd)
    /\ UNCHANGED <<sections, argScenario, posix, dirs, errorLog, reports, idx,
                   cur, proc, successful_scenarios,
                   failed_scenarios, results, comparison, exitCode, launched,
                   callCwd, analysed>>

\* lines 95-97, 125-141 and 146-150: the child exited with a nonzero code.
\* Write error_output.txt and return False
RunScenarioExitNonzero ==
    /\ UNCHANGED <<avars, rvars>>
    /\ pc = "waiting"
    /\ proc = "exited"
    /\ returncode # 0
    /\ original_dir' = original_dir
    /\ LET sd == ScenarioDir(cwd, cur)
       IN IF ~CanOpenIn(sd)
          THEN /\ Returns(ExceptionReturn, "exception", cwd)
               /\ errorLog' = errorLog
          ELSE /\ errorLog' = [errorLog EXCEPT ![sd] = LogEntry(cur, returncode, elapsed)]
               /\ Returns(FailureReturn, "failed", cwd)
    /\ UNCHANGED <<sections, argScenario, posix, dirs, sfiles, outputLog,
                   reports, wd, idx, cur, proc,
                   successful_scenarios, failed_scenarios, results, comparison,
                   exitCode, launched, callCwd, relocated, replaced, analysed>>

\* a loop that stops at the first scenario that did not succeed
NextIndex_StopOnFailure(i, ok) == IF ok THEN i + 1 ELSE Len(sections) + 1

\* ------------------------------------------------- run_all_scenarios loop
\* the loop goes on to the next scenario whatever run_scenario returned
NextIndex(i, ok) == i + 1

\* an entry that records success whatever run_scenario returned
LedgerEntry_AlwaysTrue(name, ok) == <<name, TRUE>>

\* lines 217 and 223: results[scenario] = True / False
LedgerEntry(name, ok) == <<name, ok>>

\* the analysis called for every scenario, failed ones too
AnalyseAfter_Always(ok) == TRUE

\* lines 215-220: analyze_scenario_results is called in the branch where
\* run_scenario returned True, and only there
AnalyseAfter(ok) == ok

\* lines 215-223: the ledger entry of the scenario just run; on success the
\* analysis follows, otherwise the next iteration
LoopRecord ==
    /\ UNCHANGED <<avars, rvars>>
    /\ pc = "returned"
    /\ argScenario = NoScenarioArg
    /\ results' = Append(results, LedgerEntry(cur, retval))
    /\ IF retval
          THEN /\ successful_scenarios' = Append(successful_scenarios, cur)
               /\ UNCHANGED failed_scenarios
          ELSE /\ failed_scenarios' = Append(failed_scenarios, cur)
               /\ UNCHANGED successful_scenarios
    /\ IF AnalyseAfter(retval)
          THEN pc' = "analyze" /\ idx' = idx
          ELSE pc' = "loop" /\ idx' = NextIndex(idx, retval)
    /\ UNCHANGED <<sections, argScenario, posix, cwd, dirs, sfiles, outputLog,
                   errorLog, reports, wd, cur, original_dir, proc, returncode,
                   elapsed, retval, comparison, exitCode, launched, outcome,
                   callCwd, relocated, replaced, analysed>>

\* a single-scenario path that never analyses
SingleAnalyses_Never(ok) == FALSE

\* main, lines 317-318: with --scenario the analysis is called when
\* run_scenario returned True
SingleAnalyses(ok) == ok

\* main, lines 319 and 321: return 0 after a successful run, 1 otherwise
SingleExitCode(ok) == IF ok THEN 0 ELSE 1

\* main, lines 317-321: --scenario; analyse on success, else return 1
SingleRecord ==
    /\ UNCHANGED <<avars, rvars>>
    /\ pc = "returned"
    /\ argScenario # NoScenarioArg
    /\ IF SingleAnalyses(retval)
          THEN pc' = "analyze" /\ exitCode' = exitCode
          ELSE pc' = "done" /\ exitCode' = SingleExitCode(retval)
    /\ UNCHANGED <<sections, argScenario, posix, cwd, dirs, sfiles, outputLog,
                   errorLog, reports, wd, idx, cur, original_dir, proc,
                   returncode, elapsed, retval, successful_scenarios,
                   failed_scenarios, results, comparison, launched, outcome,
                   callCwd, relocated, replaced, analysed>>

\* ------------------------------------------- analyze_scenario_results
\* after the analysis the caller goes on: next iteration, or return 0
AfterAnalysis ==
    IF argScenario = NoScenarioArg
       THEN /\ idx' = NextIndex(idx, TRUE)
            /\ pc' = "loop"
            /\ exitCode' = exitCode
       ELSE /\ idx' = idx
            /\ pc' = "done"
            /\ exitCode' = SingleExitCode(TRUE)

\* lines 154-159: no flowmon-results.xml in the scenario directory (the
\* relative path, resolved against the restored working directory)
AnalyzeNoResults ==
    /\ UNCHANGED <<avars, rvars>>
    /\ pc = "analyze"
    /\ sfiles[ScenarioDir(cwd, cur)][flowmon_xml] = NoFile
    /\ analysed' = Append(analysed, cur)
    /\ AfterAnalysis
    /\ UNCHANGED <<sections, argScenario, posix, cwd, dirs, sfiles, outputLog,
                   errorLog, reports, wd, cur, original_dir, proc, returncode,
                   elapsed, retval, successful_scenarios, failed_scenarios,
                   results, comparison, launched, outcome, callCwd, relocated,
                   replaced>>

\* lines 161-189: the analysis script is run on the file; when it returns 0
\* (ok) it has written its reports into the scenario directory.  The value
\* analyze_scenario_results returns is not used by its callers
AnalyzeRun(ok) ==
    /\ UNCHANGED <<avars, rvars>>
    /\ pc = "analyze"
    /\ sfiles[ScenarioDir(cwd, cur)][flowmon_xml] # NoFile
    /\ analysed' = Append(analysed, cur)
    /\ reports' = IF ok THEN reports \cup {ScenarioDir(cwd, cur)} ELSE reports
    /\ AfterAnalysis
    /\ UNCHANGED <<sections, argScenario, posix, cwd, dirs, sfiles, outputLog,
                   errorLog, wd, cur, original_dir, proc, returncode, elapsed,
                   retval, successful_scenarios, failed_scenarios, results,
                   comparison, launched, outcome, callCwd, relocated, replaced>>

\* ------------------------------------------------------- end of main
Keys(res) == [k \in 1..Len(res) |-> res[k][1]]

IsTrue(entry) == entry[2]

\* no filter on success: every scenario of the ledger
SuccessfulOf_All(res) == Keys(res)

\* line 327: [s for s, success in results.items() if success]
SuccessfulOf(res) == Keys(SelectSeq(res, IsTrue))

\* all() in place of any()
ExitCodeOf_All(res) == IF \A k \in 1..Len(res) : res[k][2] THEN 0 ELSE 1

\* lines 332-335: 0 if any(results.values()) else 1
ExitCodeOf(res) == IF \E k \in 1..Len(res) : res[k][2] THEN 0 ELSE 1

\* compare_scenarios(scenarios), lines 251-276: nothing for an empty list,
\* else one entry per scenario of the list, in its order
CompareScenarios(list, old) ==
    IF list = <<>> THEN old ELSE [written |-> TRUE, entries |-> list]

\* main, lines 326-335: comparison of the successful scenarios if there is
\* one, then the exit code
MainFinish ==
    /\ UNCHANGED <<avars, rvars>>
    /\ pc = "finish"
    /\ comparison' = IF SuccessfulOf(results) # <<>>
                        THEN CompareScenarios(SuccessfulOf(results), comparison)
                        ELSE comparison
    /\ exitCode' = ExitCodeOf(results)
    /\ pc' = "done"
    /\ UNCHANGED <<sections, argScenario, posix, cwd, dirs, sfiles, outputLog,
                   errorLog, reports, wd, idx, cur, original_dir, proc,
                   returncode, elapsed, retval, successful_scenarios,
                   failed_scenarios, results, launched, outcome, callCwd,
                   relocated, replaced, analysed>>

Next ==
    \/ MainSingle
    \/ RunAllScenariosStart
    \/ LoopNext
    \/ RunScenarioNotFound
    \/ RunScenarioLaunch
    \/ RunScenarioLaunchError
    \/ \E f \in Artifacts : SimulatorWrites(f)
    \/ \E rc \in {0, 1}, d \in Durations : SimulatorExits(rc, d)
    \/ RunScenarioTimeout
    \/ RunScenarioExitZero
    \/ RunScenarioExitNonzero
    \/ LoopRecord
    \/ SingleRecord
    \/ AnalyzeNoResults
    \/ \E ok \in BOOLEAN : AnalyzeRun(ok)
    \/ MainFinish

Spec == Init /\ [][Next]_<<vars, avars, rvars>>

\* ===================================================== analyze_results.py
\* -------------------------------------------------------------- numbers
\* the float num / (den * 10^exp); ok is FALSE for the ZeroDivisionError that
\* Python raises when den is 0
Quot(num, den, exp) ==
    IF den = 0 THEN [ok |-> FALSE, num |-> 0, den |-> 1, exp |-> 0]
    ELSE [ok |-> TRUE, num |-> num, den |-> den, exp |-> exp]

\* the literal 0 of the guarded expressions' else branch
Zero == [ok |-> TRUE, num |-> 0, den |-> 1, exp |-> 0]

\* two results are the same number
SameValue(a, b) ==
    /\ a.ok
    /\ b.ok
    /\ \/ a.num = 0 /\ b.num = 0
       \/ a.exp = b.exp /\ a.num * b.den = b.num * a.den

\* q * c for an integer c
Times(q, c) == [q EXCEPT !.num = q.num * c]

\* 1 - q for a q without power of ten
OneMinus(q) == [q EXCEPT !.num = q.den - q.num]

\* / 1e9: nanoseconds to seconds
NsExp == 9

\* * 1e6: bits per second to Mbps
MegaExp == 6

\* ----------------------------------------------------------- attributes
\* an attribute of a Flow element: present with an integer value, or absent
Attr(v) == [present |-> TRUE, v |-> v]

Absent == [present |-> FALSE, v |-> 0]

\* int(flow.get(name, 0)) and float(flow.get(name, 0))
GetNumber(a) == IF a.present THEN a.v ELSE 0

\* ---------------------------------------------------- parse_flowmon_results
\* line 46
PacketLossRate(tx_packets, rx_packets) ==
    IF tx_packets > 0 THEN Quot(tx_packets - rx_packets, tx_packets, 0) ELSE Zero

\* lines 49-50
AvgDelay(delaySum, rx_packets) ==
    IF rx_packets > 0 THEN Quot(delaySum, rx_packets, NsExp) ELSE Zero

AvgJitter_GuardRxPositive(jitterSum, rx_packets) ==
    IF rx_packets > 0 THEN Quot(jitterSum, rx_packets - 1, NsExp) ELSE Zero

\* lines 53-54
AvgJitter(jitterSum, rx_packets) ==
    IF rx_packets > 1 THEN Quot(jitterSum, rx_packets - 1, NsExp) ELSE Zero

\* lines 37-64, the body of the loop for one Flow element.  int(flow.get(
\* 'flowId')) has no default: an absent flowId raises; so would a division
\* by zero.  ok is FALSE when the body raises
ParseFlow(e) ==
    LET tx_packets == GetNumber(e.txPackets)
        rx_packets == GetNumber(e.rxPackets)
        loss == PacketLossRate(tx_packets, rx_packets)
        delay == AvgDelay(GetNumber(e.delaySum), rx_packets)
        jitter == AvgJitter(GetNumber(e.jitterSum), rx_packets)
    IN [ok |-> e.flowId.present /\ loss.ok /\ delay.ok /\ jitter.ok,
        flow_id |-> e.flowId.v,
        data |-> [tx_packets |-> tx_packets,
                  rx_packets |-> rx_packets,
                  tx_bytes |-> GetNumber(e.txBytes),
                  rx_bytes |-> GetNumber(e.rxBytes),
                  packet_loss_rate |-> loss,
                  avg_delay |-> delay,
                  avg_jitter |-> jitter]]

\* position of key in the dict d (a sequence of <<key, value>>), 0 if absent
KeyIndex(d, key) ==
    LET S == {k \in 1..Len(d) : d[k][1] = key}
    IN IF S = {} THEN 0 ELSE CHOOSE k \in S : TRUE

DictSet_Append(d, key, val) == Append(d, <<key, val>>)

\* line 56, self.flows[flow_id] = {...}: a new key goes to the end, an
\* existing key keeps its place and gets the new value
DictSet(d, key, val) ==
    IF KeyIndex(d, key) = 0 THEN Append(d, <<key, val>>)
    ELSE [d EXCEPT ![KeyIndex(d, key)] = <<key, val>>]

\* lines 36-64: for flow in root.findall('.//Flow'), from entry k on
RECURSIVE ParseEntries(_, _, _)
ParseEntries(k, entries, d) ==
    IF k > Len(entries) THEN [ok |-> TRUE, flows |-> d]
    ELSE LET r == ParseFlow(entries[k])
         IN IF ~r.ok THEN [ok |-> FALSE, flows |-> d]
            ELSE ParseEntries(k + 1, entries, DictSet(d, r.flow_id, r.data))

\* lines 29-71: ET.parse raises on a malformed document; every exception is
\* caught and False returned, the flows stored so far staying in self.flows
ParseFlowmonResults(file, d) ==
    IF ~file.wellformed THEN [ok |-> FALSE, flows |-> d]
    ELSE ParseEntries(1, file.entries, d)

\* ------------------------------------------------- calculate_throughput
\* lines 73-77
CalculateThroughput(flow_data, simulation_time) ==
    IF simulation_time <= 0 THEN Zero
    ELSE Quot(flow_data.rx_bytes * 8, simulation_time, MegaExp)

\* ------------------------------------------ generate_performance_report
RECURSIVE SumSeq(_)
SumSeq(q) == IF q = <<>> THEN 0 ELSE Head(q) + SumSeq(Tail(q))

\* line 103: (total_bytes_received * 8) / (simulation_time * 1e6)
OverallThroughput(total_bytes_received, simulation_time) ==
    Quot(total_bytes_received * 8, simulation_time, MegaExp)

\* line 102
OverallPacketLoss(total_sent, total_received) ==
    IF total_sent > 0 THEN Quot(total_sent - total_received, total_sent, 0) ELSE Zero

\* lines 21-27: self.footballer_names, keys 0..4
footballer_names == <<"Messi", "Ronaldo", "Neymar", "Mbappe", "Haaland">>

FootballerName_OneBased(i) ==
    IF i < Len(footballer_names) THEN footballer_names[i + 1]
    ELSE "Player_" \o ToString(i + 1)

\* self.footballer_names.get(i, f"Player_{i}"), lines 117 and 245
FootballerName(i) ==
    IF i < Len(footballer_names) THEN footballer_names[i + 1]
    ELSE "Player_" \o ToString(i)

\* line 129: (image_size + 1023) // 1024
ExpectedPackets(image_size) == (image_size + 1023) \div 1024

\* line 130
DeliveryEfficiency(rx_packets, expected_packets) ==
    IF expected_packets > 0 THEN Quot(rx_packets, expected_packets, 0) ELSE Zero

\* lines 116-132: the block of the flow at dict position i (from 0)
ReportRow(d, i, simulation_time, image_size) ==
    LET flow_data == d[i + 1][2]
    IN [flow_id |-> d[i + 1][1],
        footballer |-> FootballerName(i),
        tx_packets |-> flow_data.tx_packets,
        rx_packets |-> flow_data.rx_packets,
        tx_bytes |-> flow_data.tx_bytes,
        rx_bytes |-> flow_data.rx_bytes,
        packet_loss_rate |-> flow_data.packet_loss_rate,
        avg_delay |-> flow_data.avg_delay,
        avg_jitter |-> flow_data.avg_jitter,
        throughput |-> CalculateThroughput(flow_data, simulation_time),
        delivery_efficiency |->
            DeliveryEfficiency(flow_data.rx_packets, ExpectedPackets(image_size))]

\* lines 79-134; ok is FALSE when the function raises (nothing catches it)
GeneratePerformanceReport(d, simulation_time, image_size) ==
    LET total_packets_sent == SumSeq([k \in 1..Len(d) |-> d[k][2].tx_packets])
        total_packets_received == SumSeq([k \in 1..Len(d) |-> d[k][2].rx_packets])
        total_bytes_received == SumSeq([k \in 1..Len(d) |-> d[k][2].rx_bytes])
        overall_throughput == OverallThroughput(total_bytes_received, simulation_time)
    IN [ok |-> overall_throughput.ok,
        simulation_time |-> simulation_time,
        image_size |-> image_size,
        number_of_flows |-> Len(d),
        total_packets_sent |-> total_packets_sent,
        total_packets_received |-> total_packets_received,
        overall_packet_loss |->
            OverallPacketLoss(total_packets_sent, total_packets_received),
        overall_throughput |-> overall_throughput,
        rows |-> [k \in 1..Len(d) |->
                     ReportRow(d, k - 1, simulation_time, image_size)]]

\* --------------------------------------------------- export_csv_report
\* lines 244-260: the row of the flow at dict position i (from 0)
CsvRow(d, i, simulation_time) ==
    LET flow_data == d[i + 1][2]
    IN [Flow_ID |-> d[i + 1][1],
        Footballer |-> FootballerName(i),
        Packets_Sent |-> flow_data.tx_packets,
        Packets_Received |-> flow_data.rx_packets,
        Bytes_Sent |-> flow_data.tx_bytes,
        Bytes_Received |-> flow_data.rx_bytes,
        Packet_Loss_Rate_pct |-> Times(flow_data.packet_loss_rate, 100),
        Avg_Delay_ms |-> Times(flow_data.avg_delay, 1000),
        Avg_Jitter_ms |-> Times(flow_data.avg_jitter, 1000),
        Throughput_Mbps |-> CalculateThroughput(flow_data, simulation_time),
        Success_Rate_pct |-> Times(OneMinus(flow_data.packet_loss_rate), 100)]

\* lines 237-267
ExportCsvReport(d, simulation_time) ==
    [k \in 1..Len(d) |-> CsvRow(d, k - 1, simulation_time)]

\* ------------------------------------------------ create_visualizations
\* max(values) == 0 for a non-empty list: x / max(values) then raises
MaxIsZero(qs) ==
    /\ \E k \in 1..Len(qs) : qs[k].num = 0
    /\ \A k \in 1..Len(qs) : qs[k].num * qs[k].den <= 0

\* the simulation time create_visualizations hands to calculate_throughput
PlotSimulationTime == 10

\* lines 136-235: the normalisations of lines 214 and 216 divide by
\* max(throughputs) and max(delays); main catches ImportError only
CreateVisualizationsRaises(d) ==
    LET delays == [k \in 1..Len(d) |-> Times(d[k][2].avg_delay, 1000)]
        throughputs == [k \in 1..Len(d) |->
                           CalculateThroughput(d[k][2], PlotSimulationTime)]
    IN MaxIsZero(throughputs) \/ MaxIsZero(delays)

\* ------------------------------------------------- main of the analysis
\* what analyze_scenario_results puts on the command line: the simulation
\* time and the image size of the scenario, never its packet size
AnalysisArgs(cfg) ==
    [simulation_time |-> cfg.simulation_time, image_size |-> cfg.image_size]

\* os.path.exists(args.flowmon) is False
AnalysisMissingFile ==
    /\ apc = "start"
    /\ ~flowmon.exists
    /\ aexit' = 1
    /\ apc' = "exit"
    /\ UNCHANGED <<flowmon, scenario_config, no_plots, flows, report_file,
                   csv_file, fault>>
    /\ UNCHANGED <<vars, rvars>>

\* analyzer.parse_flowmon_results(args.flowmon)
AnalysisParse ==
    /\ apc = "start"
    /\ flowmon.exists
    /\ LET r == ParseFlowmonResults(flowmon, flows)
       IN /\ flows' = r.flows
          /\ IF r.ok THEN apc' = "parsed" /\ aexit' = aexit
             ELSE apc' = "exit" /\ aexit' = 1
    /\ UNCHANGED <<flowmon, scenario_config, no_plots, report_file, csv_file,
                   fault>>
    /\ UNCHANGED <<vars, rvars>>

\* generate_performance_report and the write of performance_report.txt; an
\* exception of the former leaves main
AnalysisReport ==
    /\ apc = "parsed"
    /\ LET a == AnalysisArgs(scenario_config)
           report == GeneratePerformanceReport(flows, a.simulation_time,
                                               a.image_size)
       IN IF report.ok
          THEN /\ report_file' = [written |-> TRUE, report |-> report]
               /\ apc' = "reported"
               /\ fault' = fault
          ELSE /\ report_file' = report_file
               /\ apc' = "crashed"
               /\ fault' = TRUE
    /\ UNCHANGED <<flowmon, scenario_config, no_plots, flows, csv_file, aexit>>
    /\ UNCHANGED <<vars, rvars>>

\* analyzer.export_csv_report(args.output, args.simulation_time)
AnalysisExport ==
    /\ apc = "reported"
    /\ csv_file' = [written |-> TRUE,
                    rows |-> ExportCsvReport(flows,
                                AnalysisArgs(scenario_config).simulation_time)]
    /\ apc' = "exported"
    /\ UNCHANGED <<flowmon, scenario_config, no_plots, flows, report_file,
                   aexit, fault>>
    /\ UNCHANGED <<vars, rvars>>

\* args.no_plots: return 0
AnalysisNoPlots ==
    /\ apc = "exported"
    /\ no_plots
    /\ aexit' = 0
    /\ apc' = "exit"
    /\ UNCHANGED <<flowmon, scenario_config, no_plots, flows, report_file,
                   csv_file, fault>>
    /\ UNCHANGED <<vars, rvars>>

\* analyzer.create_visualizations(args.output), then return 0
AnalysisPlots ==
    /\ apc = "exported"
    /\ ~no_plots
    /\ IF CreateVisualizationsRaises(flows)
       THEN apc' = "crashed" /\ fault' = TRUE /\ aexit' = aexit
       ELSE apc' = "exit" /\ fault' = fault /\ aexit' = 0
    /\ UNCHANGED <<flowmon, scenario_config, no_plots, flows, report_file,
                   csv_file>>
    /\ UNCHANGED <<vars, rvars>>

NextAnalysis ==
    \/ AnalysisMissingFile
    \/ AnalysisParse
    \/ AnalysisReport
    \/ AnalysisExport
    \/ AnalysisNoPlots
    \/ AnalysisPlots

\* the orchestrator is not running
OrchestratorIdle ==
    /\ sections = <<>>
    /\ argScenario = NoScenarioArg
    /\ posix = TRUE
    /\ cwd = "proj"
    /\ dirs = {}
    /\ sfiles = [d \in AllDirs |-> EmptyDir]
    /\ outputLog = [d \in AllDirs |-> NoLog]
    /\ errorLog = [d \in AllDirs |-> NoLog]
    /\ reports = {}
    /\ wd = [b \in Bases |-> EmptyDir]
    /\ pc = "idle"
    /\ idx = 0
    /\ cur = ""
    /\ original_dir = "proj"
    /\ proc = "none"
    /\ returncode = 0
    /\ elapsed = 0
    /\ retval = FALSE
    /\ successful_scenarios = <<>>
    /\ failed_scenarios = <<>>
    /\ results = <<>>
    /\ comparison = [written |-> FALSE, entries |-> <<>>]
    /\ exitCode = -1
    /\ launched = <<>>
    /\ outcome = [n \in ScenarioNames \cup {UnknownScenario} |-> "pending"]
    /\ callCwd = "proj"
    /\ relocated = {}
    /\ replaced = {}
    /\ analysed = <<>>

\* the analysis main has parsed its arguments
AnalysisStart ==
    /\ flows = <<>>
    /\ apc = "start"
    /\ report_file = [written |-> FALSE]
    /\ csv_file = [written |-> FALSE]
    /\ aexit = -1
    /\ fault = FALSE
    /\ FirstRun

\* files that are absent, or present but not well-formed XML
MissingFile == [exists |-> FALSE, wellformed |-> FALSE, entries |-> <<>>]

MalformedFile == [exists |-> TRUE, wellformed |-> FALSE, entries |-> <<>>]

FlowmonFile(entries) == [exists |-> TRUE, wellformed |-> TRUE, entries |-> entries]

\* ---- one flow entry, every counter from a set with zero and negatives
MaxCounter == 2

Counters == -1..MaxCounter

CounterAttrs == {Attr(v) : v \in Counters} \cup {Absent}

SimulationTimes == {-1, 0, 10}

ImageSizes == {-2048, 0, 1024, 1025}

PacketSizes == {Absent, Attr(512), Attr(1024)}

FlowEntries ==
    [flowId : {Attr(1)}, txPackets : CounterAttrs, rxPackets : CounterAttrs,
     txBytes : {Attr(2048)}, rxBytes : {Attr(0), Attr(1024)},
     delaySum : {Absent, Attr(3)}, jitterSum : {Absent, Attr(4)}]

InitFlow ==
    /\ OrchestratorIdle
    /\ AnalysisStart
    /\ flowmon \in {MissingFile, MalformedFile}
                       \cup {FlowmonFile(<<e>>) : e \in FlowEntries}
    /\ scenario_config \in [simulation_time : SimulationTimes,
                            image_size : ImageSizes,
                            packet_size : PacketSizes]
    /\ no_plots \in BOOLEAN

SpecFlow == InitFlow /\ [][NextAnalysis]_<<vars, avars, rvars>>

\* ---- artifacts of up to MaxFlows entries; entry k carries k in its counters
MaxFlows == 6

\* the flowId of entry k of n: in order, in reverse order, a repeat of 1, or none
FlowIdChoices(k, n) == {Attr(k), Attr(n + 1 - k), Attr(1), Absent}

TableEntry(k, id) ==
    [flowId |-> id, txPackets |-> Attr(k), rxPackets |-> Attr(k),
     txBytes |-> Attr(k), rxBytes |-> Attr(k),
     delaySum |-> Attr(k), jitterSum |-> Attr(k)]

RECURSIVE FlowLists(_, _)
FlowLists(k, n) ==
    IF k = 0 THEN {<<>>}
    ELSE {Append(q, TableEntry(k, id)) :
              q \in FlowLists(k - 1, n), id \in FlowIdChoices(k, n)}

InitTable ==
    /\ OrchestratorIdle
    /\ AnalysisStart
    /\ flowmon \in {MissingFile, MalformedFile}
          \cup UNION {{FlowmonFile(q) : q \in FlowLists(n, n)} : n \in 0..MaxFlows}
    /\ scenario_config = [simulation_time |-> 10, image_size |-> 1024,
                          packet_size |-> Attr(1024)]
    /\ no_plots \in BOOLEAN

SpecTable == InitTable /\ [][NextAnalysis]_<<vars, avars, rvars>>

\* ------------------------------------------------------------ properties
Batch == argScenario = NoScenarioArg

\* the branches by which a launched run of run_scenario ends
Terminal == {"success", "failed", "timeout", "exception"}

NotSucceeded == {"failed", "timeout", "exception"}

Succeeded(n) == outcome[n] = "success"

\* the scenarios of the configuration whose run succeeded, in definition order
SucceededInOrder == SelectSeq(sections, Succeeded)

LogsOf(n) == {outputLog[ScenarioDir(b, n)] : b \in Bases}
             \cup {errorLog[ScenarioDir(b, n)] : b \in Bases}

\* C1: when run_scenario returns, by whatever path, the working directory is
\* the one it was called in.
C1_CwdRestored == pc = "returned" => cwd = callCwd

\* a run that timed out after an earlier one succeeded has returned, the
\* directory having been changed in between
C1_Witness ==
    /\ pc = "returned"
    /\ outcome[cur] = "timeout"
    /\ cwd = callCwd
    /\ cwd # Parent(callCwd)
    /\ \E n \in ScenarioNames : outcome[n] = "success"

\* C2: in a batch the scenarios are launched once each, in definition order,
\* the next one only after every earlier run reached a terminal outcome, and
\* when the batch is done every scenario has been launched, whatever the
\* outcomes were.
C2_AllLaunchedInOrder ==
    Batch =>
        /\ Len(launched) <= Len(sections)
        /\ \A k \in 1..Len(launched) : launched[k] = sections[k]
        /\ \A k \in 1..(Len(launched) - 1) : outcome[launched[k]] \in Terminal
        /\ (proc = "running" => outcome[launched[Len(launched)]] = "pending")
        /\ (pc = "done" => launched = sections)

\* a finished batch whose first scenario failed and whose second succeeded
C2_Witness ==
    /\ Batch
    /\ pc = "done"
    /\ Len(sections) >= 2
    /\ launched = sections
    /\ outcome[sections[1]] \in NotSucceeded
    /\ outcome[sections[2]] = "success"

\* C3: the batch returns 0 if and only if at least one scenario succeeded,
\* and 1 otherwise (also for the empty configuration).
C3_BatchExitCode ==
    (Batch /\ pc = "done") =>
        /\ exitCode \in {0, 1}
        /\ exitCode = 0 <=> \E n \in Range(sections) : Succeeded(n)

\* a finished batch with a failed and a succeeded scenario returned 0
C3_Witness ==
    /\ Batch
    /\ pc = "done"
    /\ exitCode = 0
    /\ \E n \in Range(sections) : Succeeded(n)
    /\ \E n \in Range(sections) : outcome[n] \in NotSucceeded

\* C4: after a batch the comparison report is written if and only if a
\* scenario succeeded, and it lists exactly the succeeded scenarios, once each,
\* in definition order.
C4_ComparisonHoldsSucceeded ==
    (Batch /\ pc = "done") =>
        /\ comparison.written <=> \E n \in Range(sections) : Succeeded(n)
        /\ comparison.entries = SucceededInOrder

\* [A fails, B succeeds]: the report holds B only
C4_Witness ==
    /\ Batch
    /\ pc = "done"
    /\ Len(sections) >= 2
    /\ outcome[sections[1]] = "failed"
    /\ comparison.written
    /\ comparison.entries = <<sections[2]>>

C6_NoLeftoverArtifacts ==
    /\ pc = "call" => \A f \in Artifacts : wd[Parent(cwd)][f] = NoFile
    /\ \A r \in relocated : r[3] = r[1]

\* C7: when run_scenario has returned for a run that did not succeed (nonzero
\* exit, timeout, launch error or other exception), an error file of that
\* scenario has been written.
C7_FailureHasErrorFile ==
    (pc = "returned" /\ outcome[cur] \in NotSucceeded) =>
        \E b \in Bases : errorLog[ScenarioDir(b, cur)].present

\* C8: every terminal outcome of run_scenario has recorded an execution time
\* for the scenario.
C8_ExecutionTimeRecorded ==
    (pc = "returned" /\ outcome[cur] \in Terminal) =>
        \E l \in LogsOf(cur) : l.present /\ l.execution_time \in Durations

\* C9: when the simulator has exited with code 0, run_scenario returns True
\* and no expected artifact is left in the working directory: each one that
\* was present is in the scenario directory.
C9_ExitZeroSucceeds ==
    [][(pc = "waiting" /\ proc = "exited" /\ returncode = 0) =>
          /\ retval'
          /\ outcome'[cur] = "success"
          /\ \A f \in Artifacts :
                wd[cwd][f] # NoFile =>
                    /\ wd'[cwd][f] = NoFile
                    /\ sfiles'[ScenarioDir(cwd, cur)][f] = wd[cwd][f]]_vars

\* C10: relocation overwrites nothing: an artifact file that exists in a
\* scenario directory keeps its content.
C10_NoOverwrite ==
    [][\A d \in AllDirs, f \in Artifacts :
          sfiles[d][f] # NoFile => sfiles'[d][f] = sfiles[d][f]]_vars

\* C11: when the simulator has exited with a nonzero code, run_scenario
\* returns False by the failed branch, the scenario's error file holds the
\* exit code, and no artifact is moved.
C11_NonzeroExitPersisted ==
    [][(pc = "waiting" /\ proc = "exited" /\ returncode # 0) =>
          /\ ~retval'
          /\ outcome'[cur] = "failed"
          /\ \E b \in Bases :
                /\ errorLog'[ScenarioDir(b, cur)].present
                /\ errorLog'[ScenarioDir(b, cur)].returncode = returncode
          /\ wd' = wd
          /\ sfiles' = sfiles]_vars

\* the scenarios whose loop iteration is over
IterationsOver ==
    IF pc \in {"waiting", "returned", "analyze"}
       THEN SubSeq(launched, 1, Len(launched) - 1)
       ELSE launched

NotSucceededScenario(n) == ~Succeeded(n)

\* C13: after run_all_scenarios the ledger has one entry per definition, in
\* definition order, True exactly for the runs that ended in the succeeded
\* outcome; the successful and failed lists partition the definitions;
\* whatever the analysis did.
C13_LedgerMatchesOutcomes ==
    (Batch /\ pc \in {"finish", "done"}) =>
        /\ Keys(results) = sections
        /\ \A k \in 1..Len(results) : results[k][2] <=> Succeeded(sections[k])
        /\ successful_scenarios = SelectSeq(sections, Succeeded)
        /\ failed_scenarios = SelectSeq(sections, NotSucceededScenario)

\* a finished batch of two succeeded scenarios: the analysis of the first
\* wrote no report, that of the second did; both are in the ledger
C13_Witness ==
    /\ Batch
    /\ pc = "done"
    /\ Len(sections) >= 2
    /\ Succeeded(sections[1])
    /\ ScenarioDir(cwd, sections[1]) \notin reports
    /\ Succeeded(sections[2])
    /\ ScenarioDir(cwd, sections[2]) \in reports
    /\ Len(results) = 2

\* C15 as stated: a single selected scenario that succeeded is analysed and
\* a comparison report listing it is produced.
C15_SingleLikeBatch ==
    (~Batch /\ pc = "done" /\ outcome[argScenario] = "success") =>
        /\ analysed = <<argScenario>>
        /\ comparison.written
        /\ comparison.entries = <<argScenario>>

\* C15 amended: a single selected scenario that succeeded is handed to
\* analyze_scenario_results and main returns 0; no comparison report is
\* produced on this path.
C15_SingleAnalysedNoComparison ==
    (~Batch /\ pc = "done" /\ outcome[argScenario] = "success") =>
        /\ analysed = <<argScenario>>
        /\ exitCode = 0
        /\ ~comparison.written

\* a single selected scenario has succeeded and main has returned
C15_Witness ==
    /\ ~Batch
    /\ pc = "done"
    /\ argScenario \in ScenarioNames
    /\ outcome[argScenario] = "success"
    /\ analysed = <<argScenario>>

\* ------------------------------------------------ properties, analysis
\* the file cannot be parsed: not well-formed XML, or a Flow element whose
\* flowId is absent
Unparsable(file) ==
    \/ ~file.wellformed
    \/ \E k \in 1..Len(file.entries) : ~file.entries[k].flowId.present

\* main has returned or an exception has left it
AnalysisOver == apc \in {"exit", "crashed"}

\* the one Flow element of the file
TheEntry == flowmon.entries[1]

\* C14: the analysis main returns 1, without an unhandled fault, when the
\* statistics file does not exist or cannot be parsed, and returns 0 when the
\* file is parsed and the reports are written.
C14_AnalysisExitCode ==
    AnalysisOver =>
        /\ (~flowmon.exists \/ Unparsable(flowmon)) => (aexit = 1 /\ ~fault)
        /\ (report_file.written /\ csv_file.written) => (aexit = 0 /\ ~fault)

\* C16: for a flow entry with counters from a set with zero and negative
\* values, the parsed loss rate is (tx - rx)/tx when tx > 0 and 0 otherwise,
\* the average delay (delaySum/1e9)/rx when rx > 0 and 0 otherwise, the average
\* jitter (jitterSum/1e9)/(rx - 1) when rx > 1 and 0 otherwise, and no division
\* by zero is attempted.
C16_PerFlowMetrics ==
    (apc # "start" /\ flowmon.exists /\ flowmon.wellformed) =>
        /\ Len(flows) = 1
        /\ LET tx == GetNumber(TheEntry.txPackets)
               rx == GetNumber(TheEntry.rxPackets)
               loss == flows[1][2].packet_loss_rate
               delay == flows[1][2].avg_delay
               jitter == flows[1][2].avg_jitter
           IN /\ loss.ok /\ delay.ok /\ jitter.ok
              /\ IF tx > 0
                 THEN loss.num * tx = (tx - rx) * loss.den /\ loss.exp = 0
                 ELSE loss.num = 0
              /\ IF rx > 0
                 THEN /\ delay.num * rx = GetNumber(TheEntry.delaySum) * delay.den
                      /\ delay.exp = NsExp
                 ELSE delay.num = 0
              /\ IF rx > 1
                 THEN /\ jitter.num * (rx - 1)
                            = GetNumber(TheEntry.jitterSum) * jitter.den
                      /\ jitter.exp = NsExp
                 ELSE jitter.num = 0

\* a parsed entry with tx_packets = 0 and rx_packets = 1: the loss and jitter
\* guards give 0, the delay is delaySum/1e9
C16_Witness ==
    /\ apc = "parsed"
    /\ Len(flows) = 1
    /\ flows[1][2].tx_packets = 0
    /\ flows[1][2].rx_packets = 1
    /\ flows[1][2].packet_loss_rate.num = 0
    /\ flows[1][2].avg_jitter.num = 0
    /\ flows[1][2].avg_delay.num = 3

\* main has gone past generate_performance_report
ReportAttempted ==
    \/ apc \in {"reported", "exported", "crashed"}
    \/ apc = "exit" /\ aexit = 0

\* C17: the overall throughput of the summary obeys the guarded formula of the
\* per-flow throughput: total_rx_bytes * 8 / (duration * 1e6) when the duration
\* is positive and 0 otherwise, so that a report with a duration of zero is
\* generated without a division-by-zero fault.
C17_OverallThroughputGuarded ==
    ReportAttempted =>
        /\ report_file.written
        /\ LET duration == scenario_config.simulation_time
               total_rx_bytes == SumSeq([k \in 1..Len(flows) |-> flows[k][2].rx_bytes])
               overall == report_file.report.overall_throughput
           IN /\ overall.ok
              /\ IF duration > 0
                 THEN /\ overall.num * duration = total_rx_bytes * 8 * overall.den
                      /\ overall.exp = MegaExp
                 ELSE overall.num = 0

\* smallest number of packets of packet_size bytes that hold image_size bytes
CeilDiv(a, b) == -((-a) \div b)

\* the packet size the scenario declares, 1024 when it declares none
DeclaredPacketSize(cfg) ==
    IF cfg.packet_size.present THEN cfg.packet_size.v ELSE 1024

\* C19: the delivery efficiency reported for a flow is rx_packets /
\* expected_packets, expected_packets being ceil(image_size / packet_size) for
\* the packet size the scenario declares (1024 when it declares none), and 0
\* when expected_packets <= 0.
C19_DeliveryEfficiency ==
    report_file.written =>
        \A k \in 1..Len(report_file.report.rows) :
            LET row == report_file.report.rows[k]
                expected_packets ==
                    CeilDiv(scenario_config.image_size,
                            DeclaredPacketSize(scenario_config))
                eff == row.delivery_efficiency
            IN /\ eff.ok
               /\ IF expected_packets > 0
                  THEN eff.num * expected_packets = row.rx_packets * eff.den
                  ELSE eff.num = 0

\* the flowId values of the artifact's entries, in artifact order
ArtifactIds == [k \in 1..Len(flowmon.entries) |-> flowmon.entries[k].flowId.v]

\* the file has been parsed with success
Parsed == apc \in {"parsed", "reported", "exported", "crashed"} \/ aexit = 0

\* C20: parsing an artifact of N flow entries yields N flow records in artifact
\* order, and the per-flow table and the tabular export have one row per flow
\* entry in that order, for every sequence of flow ids, out of numeric order
\* or repeated.  (Entry k carries k in its counters.)
C20_OneRecordPerEntry ==
    /\ Parsed =>
          /\ Len(flows) = Len(flowmon.entries)
          /\ \A k \in 1..Len(flows) :
                 flows[k][1] = ArtifactIds[k] /\ flows[k][2].tx_packets = k
    /\ report_file.written =>
          /\ Len(report_file.report.rows) = Len(flowmon.entries)
          /\ \A k \in 1..Len(report_file.report.rows) :
                 /\ report_file.report.rows[k].flow_id = ArtifactIds[k]
                 /\ report_file.report.rows[k].tx_packets = k
    /\ csv_file.written =>
          /\ Len(csv_file.rows) = Len(flowmon.entries)
          /\ \A k \in 1..Len(csv_file.rows) :
                 /\ csv_file.rows[k].Flow_ID = ArtifactIds[k]
                 /\ csv_file.rows[k].Packets_Sent = k

\* the distinct values of ids[1..k], in the order of their first occurrence
RECURSIVE FirstIds(_, _)
FirstIds(ids, k) ==
    IF k = 0 THEN <<>>
    ELSE LET q == FirstIds(ids, k - 1)
         IN IF ids[k] \in Range(q) THEN q ELSE Append(q, ids[k])

\* the K-th configured name, or the placeholder made of prefix and K
LabelWith(prefix, K) ==
    IF K < Len(footballer_names) THEN footballer_names[K + 1]
    ELSE prefix \o ToString(K)

AttributeNames ==
    {"flowId", "txPackets", "rxPackets", "txBytes", "rxBytes", "delaySum",
     "jitterSum"}

FullEntries ==
    [flowId : {Attr(1)}, txPackets : {Attr(1), Attr(2)},
     rxPackets : {Attr(0), Attr(1), Attr(2)},
     txBytes : {Attr(2048)}, rxBytes : {Attr(1024)},
     delaySum : {Attr(3)}, jitterSum : {Attr(4)}]

OneAbsent(e) == {[e EXCEPT ![a] = Absent] : a \in AttributeNames}

InitAbsent ==
    /\ OrchestratorIdle
    /\ AnalysisStart
    /\ flowmon \in {MissingFile, MalformedFile}
          \cup {FlowmonFile(<<e>>) : e \in FullEntries}
          \cup UNION {{FlowmonFile(<<a>>) : a \in OneAbsent(e)} : e \in FullEntries}
    /\ scenario_config = [simulation_time |-> 10, image_size |-> 1024,
                          packet_size |-> Attr(1024)]
    /\ no_plots \in BOOLEAN

SpecAbsent == InitAbsent /\ [][NextAnalysis]_<<vars, avars, rvars>>

\* the value the claim gives an attribute: 0 when it is absent
AbsentAsZero(a) == IF a.present THEN a.v ELSE 0

\* C21: a flow entry from which one of flowId, txPackets, rxPackets, txBytes,
\* rxBytes, delaySum, jitterSum is absent is parsed with success, the absent
\* attribute taken as 0; absence alone never makes parsing fail.
C21_AbsentAttributeIsZero ==
    (apc # "start" /\ flowmon.exists /\ flowmon.wellformed) =>
        /\ Parsed
        /\ Len(flows) = 1
        /\ flows[1][1] = AbsentAsZero(TheEntry.flowId)
        /\ LET rx == AbsentAsZero(TheEntry.rxPackets)
               data == flows[1][2]
           IN /\ data.tx_packets = AbsentAsZero(TheEntry.txPackets)
              /\ data.rx_packets = rx
              /\ data.tx_bytes = AbsentAsZero(TheEntry.txBytes)
              /\ data.rx_bytes = AbsentAsZero(TheEntry.rxBytes)
              /\ data.avg_delay.ok /\ data.avg_jitter.ok
              /\ rx > 0 => data.avg_delay.num * rx
                              = AbsentAsZero(TheEntry.delaySum) * data.avg_delay.den
              /\ rx > 1 => data.avg_jitter.num * (rx - 1)
                              = AbsentAsZero(TheEntry.jitterSum) * data.avg_jitter.den

\* ---- the pipeline run twice on one artifact
\* a run has ended with both reports written
RunComplete == apc = "exit" /\ aexit = 0

\* the script is started again: a new process, a new NetworkSimulationAnalyzer
\* whose flows are empty
RunAgainFresh ==
    /\ RunComplete
    /\ rerun = "first"
    /\ rerun' = "fresh"
    /\ first_report' = report_file
    /\ first_csv' = csv_file
    /\ flows' = <<>>
    /\ apc' = "start"
    /\ report_file' = [written |-> FALSE]
    /\ csv_file' = [written |-> FALSE]
    /\ aexit' = -1
    /\ UNCHANGED <<flowmon, scenario_config, no_plots, fault>>
    /\ UNCHANGED vars

\* the same analyzer parses the artifact again: parse_flowmon_results does not
\* clear self.flows
RunAgainSameAnalyzer ==
    /\ RunComplete
    /\ rerun = "first"
    /\ rerun' = "same"
    /\ first_report' = report_file
    /\ first_csv' = csv_file
    /\ flows' = flows
    /\ apc' = "start"
    /\ report_file' = [written |-> FALSE]
    /\ csv_file' = [written |-> FALSE]
    /\ aexit' = -1
    /\ UNCHANGED <<flowmon, scenario_config, no_plots, fault>>
    /\ UNCHANGED vars

NextTwice ==
    \/ AnalysisMissingFile
    \/ AnalysisParse
    \/ AnalysisReport
    \/ AnalysisExport
    \/ AnalysisNoPlots
    \/ AnalysisPlots
    \/ RunAgainFresh
    \/ RunAgainSameAnalyzer

SpecTwice == InitTable /\ [][NextTwice]_<<vars, avars, rvars>>

\* C22: parse, text report and tabular export run twice on the same artifact
\* with the same parameters give identical text reports and identical tabular
\* exports, with a fresh analyzer for the second run and with the same
\* analyzer parsing the artifact a second time.
C22_RerunIdentical ==
    rerun \in {"fresh", "same"} =>
        /\ report_file.written => report_file = first_report
        /\ csv_file.written => csv_file = first_csv

\* the same analyzer has parsed an artifact with the ids 2, 1 twice and the
\* second run has written both outputs
C22_Witness ==
    /\ rerun = "same"
    /\ csv_file.written
    /\ report_file.written
    /\ first_csv.written
    /\ Len(csv_file.rows) = 2
    /\ csv_file.rows[1].Flow_ID = 2
    /\ csv_file.rows[2].Flow_ID = 1

\* ------------------------------------------ properties, scenario directory
\* the directory run_scenario created for scenario n: makedirs ran in the
\* working directory of the call
CreatedDir(n) == ScenarioDir(callCwd, n)

\* C23: the directory run_scenario creates for a scenario, the directory into
\* which it writes the execution log or the error file and moves the artifacts
\* while the working directory is the simulator root, and the directory from
\* which analyze_scenario_results reads the flow-statistics file are the same,
\* so that the flow-statistics file of a successful run is the one the
\* analysis finds.
C23_OneScenarioDirectory ==
    /\ \A d \in AllDirs :
           (outputLog[d].present \/ errorLog[d].present) => d = CreatedDir(d[2])
    /\ \A r \in relocated : sfiles[CreatedDir(r[1])][r[2]] = r[3]
    /\ (pc = "analyze" /\ \E r \in relocated : r[1] = cur /\ r[2] = flowmon_xml)
           => sfiles[ScenarioDir(cwd, cur)][flowmon_xml] = cur

====
